---- MODULE Spec2Model ----
(***************************************************************************)
(* State-machine model of drivers/cpufreq/ia64-acpi-cpufreq.c, the ia64    *)
(* ACPI P-state driver: the per-CPU registry acpi_io_data[], the cpufreq   *)
(* callbacks init / exit / target_index / get, and the helpers             *)
(* processor_set_freq, processor_get_freq and extract_clock.               *)
(*                                                                         *)
(* C indices are 0-based; a C array a[] is a sequence whose element i is   *)
(* At(a, i).  Every value of the model fits 31 bits, so the casts (u32),   *)
(* (int) and (unsigned) of the source preserve the values they are applied *)
(* to here.                                                                *)
(***************************************************************************)
EXTENDS Integers, Sequences, FiniteSets, TLC

\* ---------------------------------------------------------------- bounds
\* Longest P-state table the firmware supplies.
MaxStates == 2

\* ------------------------------------------------------- program constants
\* Number of logical processors of the build (size of acpi_io_data[]).
NR_CPUS == 2
ENOMEM == 12
ENODEV == 19
EAGAIN == 11
\* ACPI_ADR_SPACE_FIXED_HARDWARE, 0x7F.
ACPI_ADR_SPACE_FIXED_HARDWARE == 127
\* ~1u, read as a 32-bit two's-complement number.
CPUFREQ_TABLE_END == -2

CPUS == 0 .. (NR_CPUS - 1)
NULL == [ null |-> TRUE ]
At(a, i) == a[i + 1]

\* ------------------------------------------------------- firmware data
\* One struct acpi_processor_px: the fields the driver reads.
PxStates ==
  { [core_frequency |-> 3000, transition_latency |-> 10, control |-> 1, status |-> 16],
    [core_frequency |-> 2600, transition_latency |-> 20, control |-> 2, status |-> 32],
    [core_frequency |-> 2200, transition_latency |-> 10, control |-> 3, status |-> 32] }

RECURSIVE SeqsUpTo(_, _)
SeqsUpTo(S, n) ==
  IF n = 0 THEN { <<>> }
  ELSE LET shorter == SeqsUpTo(S, n - 1)
       IN  shorter \cup { Append(s, x) : s \in { t \in shorter : Len(t) = n - 1 }, x \in S }

\* Address-space ids a _PCT register can declare: fixed hardware, system I/O.
SpaceIds == { ACPI_ADR_SPACE_FIXED_HARDWARE, 1 }

\* What acpi_processor_register_performance() copies into data->acpi_data,
\* apart from the current state index.
Firmware ==
  [ states : SeqsUpTo(PxStates, MaxStates),
    control_space : SpaceIds,
    status_space : SpaceIds ]

\* Return statuses of the PAL calls ia64_pal_set_pstate / ia64_pal_get_pstate.
PalStatus == { -1, 0, 1 }
\* Values the PAL status read can deliver in pstate_index.
PstateIndex == { 16, 32, 153 }
\* Results of acpi_processor_register_performance(): 0, -EBUSY, -EINVAL.
RegisterResults == { 0, -16, -22 }
\* Results of cpufreq_table_validate_and_show(): 0, -EINVAL.
ValidateResults == { 0, -22 }

\* ------------------------------------------------------------ state
VARIABLES
  firmware,      \* the platform's P-state data, the same for every processor
  acpi_io_data,  \* acpi_io_data[cpu]: NULL or a struct cpufreq_acpi_io
  policy,        \* policy[cpu]: freq_table and cpuinfo.transition_latency
  registered,    \* registered[cpu]: ACPI performance registration is held
  req,           \* req[cpu]: the callback in flight for cpu, its locals, its caller
  synced,        \* history: a verified target(index = state) ran since activation
  last_ok,       \* history: index of the last call if it was a successful
                 \*          target entered with resume = 0, else -1
  committed      \* history, per processor since its activation: index is the
                 \*          state index the platform reported, then that of the
                 \*          last commit the hardware accepted; control is the
                 \*          value of that commit, -1 while there is none

vars == << firmware, acpi_io_data, policy, registered, req, synced, last_ok,
          committed >>

NoCommit == [ index |-> -1, control |-> -1 ]
NoPolicy == [ freq_table |-> <<>>, transition_latency |-> 0 ]

\* A callback slot with nothing in flight.
Idle ==
  [ pc |-> "idle", op |-> "none", index |-> 0,
    saved_mask |-> {}, cpus_allowed |-> {}, on_cpu |-> 0,
    value |-> 0, ret |-> 0, retval |-> 0, clock_freq |-> 0,
    \* observations of the call, for the properties
    mask0 |-> {}, state0 |-> 0, resume0 |-> 0, first |-> FALSE, prev_ok |-> -1,
    landed |-> 0, verified |-> FALSE, commits |-> <<>>, reads |-> <<>>,
    lookups |-> 0, hw |-> "none", unregs |-> 0, count |-> -1 ]

\* The platform lists each P-state once.
ListedOnce(states) ==
  \A i, j \in 1 .. Len(states) : states[i] = states[j] => i = j

\* The state before any processor is activated, whatever the platform.
Booted ==
  /\ acpi_io_data = [ cpu \in CPUS |-> NULL ]
  /\ policy = [ cpu \in CPUS |-> NoPolicy ]
  /\ registered = [ cpu \in CPUS |-> FALSE ]
  /\ req = [ cpu \in CPUS |-> Idle ]
  /\ synced = [ cpu \in CPUS |-> FALSE ]
  /\ last_ok = [ cpu \in CPUS |-> -1 ]
  /\ committed = [ cpu \in CPUS |-> NoCommit ]

Init ==
  /\ firmware \in { f \in Firmware : ListedOnce(f.states) }
  /\ Booted

\* A platform with the two-state table 3000 MHz, 2600 MHz.
InitSMP ==
  /\ firmware \in { f \in Firmware :
                      /\ Len(f.states) = 2
                      /\ f.states[1].core_frequency = 3000
                      /\ f.states[2].core_frequency = 2600 }
  /\ Booted


\* ------------------------------------------------------ low-level helpers
\* processor_set_pstate(): a non-zero PAL status becomes -ENODEV.
processor_set_pstate(status) == IF status # 0 THEN -ENODEV ELSE status

\* processor_get_pstate(): the PAL status is returned as it is.
processor_get_pstate(status) == status

\* Variant: the fallback reads states[0] instead of states[i-1].
RECURSIVE extract_clock_first_entry_from(_, _, _)
extract_clock_first_entry_from(acpi_data, value, i) ==
  IF i < acpi_data.state_count
  THEN IF value = At(acpi_data.states, i).status
       THEN At(acpi_data.states, i).core_frequency
       ELSE extract_clock_first_entry_from(acpi_data, value, i + 1)
  ELSE At(acpi_data.states, 0).core_frequency

extract_clock_first_entry(data, value) ==
  extract_clock_first_entry_from(data.acpi_data, value, 0)

\* Variant: the scan runs from the last entry down, so the last match wins.
RECURSIVE extract_clock_last_match_from(_, _, _)
extract_clock_last_match_from(acpi_data, value, i) ==
  IF i > 0
  THEN IF value = At(acpi_data.states, i - 1).status
       THEN At(acpi_data.states, i - 1).core_frequency
       ELSE extract_clock_last_match_from(acpi_data, value, i - 1)
  ELSE At(acpi_data.states, acpi_data.state_count - 1).core_frequency

extract_clock_last_match(data, value) ==
  extract_clock_last_match_from(data.acpi_data, value, data.acpi_data.state_count)

\* Variant: the frequency of the state the driver believes current.
extract_clock_current(data, value) ==
  At(data.acpi_data.states, data.acpi_data.state).core_frequency

\* extract_clock(): the frequency of the first entry whose status equals value;
\* the loop leaves i = state_count, and the fallback reads states[i-1].
RECURSIVE extract_clock_from(_, _, _)
extract_clock_from(acpi_data, value, i) ==
  IF i < acpi_data.state_count
  THEN IF value = At(acpi_data.states, i).status
       THEN At(acpi_data.states, i).core_frequency
       ELSE extract_clock_from(acpi_data, value, i + 1)
  ELSE At(acpi_data.states, i - 1).core_frequency

extract_clock(data, value) == extract_clock_from(data.acpi_data, value, 0)

\* set_cpus_allowed_ptr(current, mask): the caller's allowed mask becomes mask;
\* landed is the processor the caller runs on when the call returns.
set_cpus_allowed_ptr(r, mask, landed) ==
  [ r EXCEPT !.cpus_allowed = mask, !.on_cpu = landed ]

\* Where a caller stays after its mask is widened back: where it is, if allowed.
StaysOn(r, mask) ==
  IF r.on_cpu \in mask \/ mask = {} THEN r.on_cpu ELSE CHOOSE c \in mask : TRUE

\* The affinity masks a caller can enter a callback with.
CallerMasks == (SUBSET CPUS) \ { {} }

Set(cpu, r) == req' = [ req EXCEPT ![cpu] = r ]

\* ------------------------------------------------- processor_set_freq()
\* Variant: the affinity check is skipped.
set_freq_migrated_unchecked(r, cpu) == FALSE

\* line 151: smp_processor_id() != policy->cpu
set_freq_migrated(r, cpu) == r.on_cpu # cpu

\* Variant: the resume flag is not consulted.
set_freq_compare_no_resync(data, state) ==
  IF state = data.acpi_data.state THEN "noop" ELSE "transition"

\* Variant: no fast path for a request of the current state.
set_freq_compare_no_fast_path(data, state) ==
  IF state = data.acpi_data.state /\ data.resume # 0 THEN "resync" ELSE "transition"

\* Variant: a set resume flag is cleared whatever state is asked for.
set_freq_compare_resync_any(data, state) ==
  IF data.resume # 0 THEN "resync"
  ELSE IF state = data.acpi_data.state THEN "noop" ELSE "transition"

\* lines 156-165: "noop" (already at target), "resync" (called after resume),
\* or "transition".
set_freq_compare(data, state) ==
  IF state = data.acpi_data.state
  THEN IF data.resume # 0 THEN "resync" ELSE "noop"
  ELSE "transition"

\* Variant: the state index is recorded before the commit's result is looked at.
set_freq_commit_unchecked(data, state, ret) ==
  [ data EXCEPT !.acpi_data.state = state ]

\* Variant: the new state index is never recorded.
set_freq_commit_dropped(data, state, ret) == data

\* lines 179-186: data->acpi_data.state after the commit returned ret.
set_freq_commit(data, state, ret) ==
  IF ret # 0 THEN data ELSE [ data EXCEPT !.acpi_data.state = state ]

\* Variant: migrate_end leaves the pinned mask in place.
set_freq_restore_pinned(r) == r.cpus_allowed

\* line 191: the mask handed back at migrate_end.
set_freq_restore(r) == r.saved_mask

\* acpi_cpufreq_target() entering processor_set_freq(), lines 149-150.
acpi_cpufreq_target(cpu) ==
  /\ req[cpu].pc = "idle"
  /\ acpi_io_data[cpu] # NULL
  /\ \E index \in 0 .. (acpi_io_data[cpu].acpi_data.state_count - 1),
        mask \in CallerMasks, landed \in CPUS :
       Set(cpu, set_cpus_allowed_ptr(
                  [ Idle EXCEPT !.pc = "set_check", !.op = "target", !.index = index,
                                !.cpus_allowed = mask, !.saved_mask = mask,
                                !.mask0 = mask,
                                !.state0 = acpi_io_data[cpu].acpi_data.state,
                                !.resume0 = acpi_io_data[cpu].resume,
                                !.prev_ok = last_ok[cpu], !.landed = landed ],
                  { cpu }, landed))
  /\ UNCHANGED << firmware, acpi_io_data, policy, registered, synced, last_ok,
                    committed >>

\* lines 151-154
set_check(cpu) ==
  /\ req[cpu].pc = "set_check"
  /\ IF set_freq_migrated(req[cpu], cpu)
     THEN Set(cpu, [ req[cpu] EXCEPT !.retval = -EAGAIN, !.pc = "set_migrate_end" ])
     ELSE Set(cpu, [ req[cpu] EXCEPT !.verified = TRUE, !.pc = "set_compare" ])
  /\ UNCHANGED << firmware, acpi_io_data, policy, registered, synced, last_ok,
                    committed >>

\* lines 156-165
set_compare(cpu) ==
  LET r == req[cpu]
      data == acpi_io_data[cpu]
      way == set_freq_compare(data, r.index)
      seen == [ r EXCEPT !.first = (r.index = data.acpi_data.state /\ ~synced[cpu]) ]
  IN  /\ r.pc = "set_compare"
      /\ CASE way = "noop" ->
                /\ Set(cpu, [ seen EXCEPT !.retval = 0, !.pc = "set_migrate_end" ])
                /\ UNCHANGED acpi_io_data
           [] way = "resync" ->
                /\ Set(cpu, [ seen EXCEPT !.pc = "set_transition" ])
                /\ acpi_io_data' = [ acpi_io_data EXCEPT ![cpu].resume = 0 ]
           [] OTHER ->
                /\ Set(cpu, [ seen EXCEPT !.pc = "set_transition" ])
                /\ UNCHANGED acpi_io_data
      /\ synced' = [ synced EXCEPT ![cpu] = @ \/ (r.index = data.acpi_data.state) ]
      /\ UNCHANGED << firmware, policy, registered, last_ok, committed >>

\* lines 175-188
set_transition(cpu) ==
  LET r == req[cpu]
      data == acpi_io_data[cpu]
      value == At(data.acpi_data.states, r.index).control
  IN  /\ r.pc = "set_transition"
      /\ \E status \in PalStatus :
           LET ret == processor_set_pstate(status)
           IN  /\ Set(cpu, [ r EXCEPT !.value = value, !.ret = ret,
                                      !.commits = Append(@, [ value |-> value, cpu |-> r.on_cpu ]),
                                      !.hw = IF ret # 0 THEN "failed" ELSE "ok",
                                      !.retval = IF ret # 0 THEN -ENODEV ELSE 0,
                                      !.pc = "set_migrate_end" ])
               /\ acpi_io_data' = [ acpi_io_data EXCEPT
                                      ![cpu] = set_freq_commit(data, r.index, ret) ]
               /\ committed' = [ committed EXCEPT
                                   ![cpu] = IF status = 0
                                            THEN [ index |-> r.index, control |-> value ]
                                            ELSE @ ]
      /\ UNCHANGED << firmware, policy, registered, synced, last_ok >>

\* lines 190-192
set_migrate_end(cpu) ==
  LET r == req[cpu]
      mask == set_freq_restore(r)
  IN  /\ r.pc = "set_migrate_end"
      /\ Set(cpu, [ set_cpus_allowed_ptr(r, mask, StaysOn(r, mask)) EXCEPT !.pc = "done" ])
      /\ UNCHANGED << firmware, acpi_io_data, policy, registered, synced, last_ok,
                    committed >>


\* ------------------------------------------------- processor_get_freq()
\* line 115: smp_processor_id() != cpu
get_freq_migrated(r, cpu) == r.on_cpu # cpu

\* Variant: the error of a failed status read stays in ret.
get_freq_read_failed_kept(ret) == ret

\* line 124: what a failed status read leaves in ret.
get_freq_read_failed(ret) == 0

\* line 128: ret = (clock_freq*1000)
get_freq_scale(clock_freq) == clock_freq * 1000

\* line 131: the mask handed back at migrate_end.
get_freq_restore(r) == r.saved_mask

\* acpi_cpufreq_get() entering processor_get_freq(), lines 113-114.
acpi_cpufreq_get(cpu) ==
  /\ req[cpu].pc = "idle"
  /\ acpi_io_data[cpu] # NULL
  /\ \E mask \in CallerMasks, landed \in CPUS :
       Set(cpu, set_cpus_allowed_ptr(
                  [ Idle EXCEPT !.pc = "get_check", !.op = "get",
                                !.cpus_allowed = mask, !.saved_mask = mask,
                                !.mask0 = mask,
                                !.state0 = acpi_io_data[cpu].acpi_data.state,
                                !.resume0 = acpi_io_data[cpu].resume,
                                !.landed = landed ],
                  { cpu }, landed))
  /\ UNCHANGED << firmware, acpi_io_data, policy, registered, synced, last_ok,
                    committed >>

\* lines 115-116
get_check(cpu) ==
  /\ req[cpu].pc = "get_check"
  /\ IF get_freq_migrated(req[cpu], cpu)
     THEN Set(cpu, [ req[cpu] EXCEPT !.pc = "get_migrate_end" ])
     ELSE Set(cpu, [ req[cpu] EXCEPT !.verified = TRUE, !.pc = "get_pstate" ])
  /\ UNCHANGED << firmware, acpi_io_data, policy, registered, synced, last_ok,
                    committed >>

\* lines 119-128
get_pstate(cpu) ==
  LET r == req[cpu]
      data == acpi_io_data[cpu]
  IN  /\ r.pc = "get_pstate"
      /\ \E status \in PalStatus, pstate_index \in PstateIndex :
           LET ret == processor_get_pstate(status)
               read == [ r EXCEPT !.value = pstate_index,
                                  !.reads = Append(@, [ value |-> pstate_index,
                                                        cpu |-> r.on_cpu ]),
                                  !.pc = "get_migrate_end" ]
               clock_freq == extract_clock(data, pstate_index)
           IN  IF ret # 0
               THEN Set(cpu, [ set_cpus_allowed_ptr(read, r.saved_mask,
                                                    StaysOn(r, r.saved_mask))
                               EXCEPT !.hw = "failed",
                                      !.ret = get_freq_read_failed(ret) ])
               ELSE Set(cpu, [ read EXCEPT !.hw = "ok", !.lookups = @ + 1,
                                           !.clock_freq = clock_freq,
                                           !.ret = get_freq_scale(clock_freq) ])
      /\ UNCHANGED << firmware, acpi_io_data, policy, registered, synced, last_ok,
                    committed >>

\* lines 130-132
get_migrate_end(cpu) ==
  LET r == req[cpu]
      mask == get_freq_restore(r)
  IN  /\ r.pc = "get_migrate_end"
      /\ Set(cpu, [ set_cpus_allowed_ptr(r, mask, StaysOn(r, mask)) EXCEPT !.pc = "done" ])
      /\ UNCHANGED << firmware, acpi_io_data, policy, registered, synced, last_ok,
                    committed >>


\* ------------------------------------------------ acpi_cpufreq_cpu_init()
\* Variant: the capability check lets a single-state table through.
no_pstates_single_allowed(acpi_data) == acpi_data.state_count < 1

\* line 240: capability check
no_pstates(acpi_data) == acpi_data.state_count <= 1

\* Variant: only the control register's address space is checked.
unsupported_space_control_only(acpi_data) ==
  acpi_data.control_space # ACPI_ADR_SPACE_FIXED_HARDWARE

\* lines 246-249
unsupported_space(acpi_data) ==
  \/ acpi_data.control_space # ACPI_ADR_SPACE_FIXED_HARDWARE
  \/ acpi_data.status_space # ACPI_ADR_SPACE_FIXED_HARDWARE

\* lines 267-274: policy->cpuinfo.transition_latency
RECURSIVE detect_latency(_, _, _)
detect_latency(acpi_data, i, latency) ==
  IF i < acpi_data.state_count
  THEN detect_latency(acpi_data, i + 1,
         IF At(acpi_data.states, i).transition_latency * 1000 > latency
         THEN At(acpi_data.states, i).transition_latency * 1000
         ELSE latency)
  ELSE latency

\* Variant: the loop stops before the terminating entry.
table_init_unterminated(acpi_data) ==
  [ i \in 1 .. acpi_data.state_count |->
      At(acpi_data.states, i - 1).core_frequency * 1000 ]

\* lines 277-285: freq_table[0 .. state_count]
table_init(acpi_data) ==
  [ i \in 1 .. (acpi_data.state_count + 1) |->
      IF i - 1 < acpi_data.state_count
      THEN At(acpi_data.states, i - 1).core_frequency * 1000
      ELSE CPUFREQ_TABLE_END ]

\* line 309: the resume flag of a fresh entry.
init_resume == 1

\* lines 228-321: the label the function leaves by, and its result.
cpu_init_exit(acpi_data, kzalloc_ok, registration, kcalloc_ok, validation) ==
  IF ~kzalloc_ok THEN [ label |-> "enomem", result |-> -ENOMEM ]
  ELSE IF registration # 0 THEN [ label |-> "err_free", result |-> registration ]
  ELSE IF no_pstates(acpi_data) THEN [ label |-> "err_unreg", result |-> -ENODEV ]
  ELSE IF unsupported_space(acpi_data)
       THEN [ label |-> "err_unreg", result |-> -ENODEV ]
  ELSE IF ~kcalloc_ok THEN [ label |-> "err_unreg", result |-> -ENOMEM ]
  ELSE IF validation # 0 THEN [ label |-> "err_freqfree", result |-> validation ]
  ELSE [ label |-> "return", result |-> 0 ]

\* lines 313-319: acpi_io_data[cpu] when the function leaves by label.
cpu_init_entry(label, data) == IF label = "return" THEN data ELSE NULL

acpi_cpufreq_cpu_init(cpu) ==
  /\ req[cpu].pc = "idle"
  /\ acpi_io_data[cpu] = NULL
  /\ \E kzalloc_ok \in BOOLEAN, registration \in RegisterResults,
        state \in { i \in 0 .. MaxStates : i = 0 \/ i < Len(firmware.states) },
        kcalloc_ok \in BOOLEAN, validation \in ValidateResults :
       LET acpi_data == [ state_count |-> Len(firmware.states),
                          states |-> firmware.states,
                          state |-> state,
                          control_space |-> firmware.control_space,
                          status_space |-> firmware.status_space ]
           data == [ acpi_data |-> acpi_data, resume |-> init_resume ]
           out == cpu_init_exit(acpi_data, kzalloc_ok, registration, kcalloc_ok,
                                validation)
           delivered == kzalloc_ok /\ registration = 0
           built == out.label \in { "err_freqfree", "return" }
       IN  /\ acpi_io_data' = [ acpi_io_data EXCEPT
                                  ![cpu] = cpu_init_entry(out.label, data) ]
           /\ policy' = [ policy EXCEPT
                ![cpu] = [ freq_table |-> IF out.label = "return"
                                          THEN table_init(acpi_data) ELSE @.freq_table,
                           transition_latency |->
                             IF built THEN detect_latency(acpi_data, 0, 0)
                             ELSE @.transition_latency ] ]
           /\ registered' = [ registered EXCEPT ![cpu] = (out.label = "return") ]
           /\ synced' = [ synced EXCEPT ![cpu] = FALSE ]
           /\ committed' = [ committed EXCEPT
                               ![cpu] = IF out.label = "return"
                                        THEN [ index |-> state, control |-> -1 ]
                                        ELSE NoCommit ]
           /\ Set(cpu, [ Idle EXCEPT !.pc = "done", !.op = "init",
                                     !.ret = out.result,
                                     !.count = IF delivered THEN acpi_data.state_count
                                               ELSE -1,
                                     !.unregs = IF out.label \in { "err_unreg",
                                                                   "err_freqfree" }
                                                THEN 1 ELSE 0 ])
  /\ UNCHANGED << firmware, last_ok >>

\* ------------------------------------------------ acpi_cpufreq_cpu_exit()
\* Variant: the teardown does not look whether there is an entry.
cpu_exit_releases_always(data) == TRUE

\* line 333: if (data)
cpu_exit_releases(data) == data # NULL

\* Variant: the teardown empties the whole registry.
cpu_exit_clear_all(io_data, cpu) == [ c \in CPUS |-> NULL ]

\* line 334: acpi_io_data[policy->cpu] = NULL
cpu_exit_clear(io_data, cpu) == [ io_data EXCEPT ![cpu] = NULL ]

\* lines 329-340
acpi_cpufreq_cpu_exit(cpu) ==
  LET data == acpi_io_data[cpu]
  IN  /\ req[cpu].pc = "idle"
      /\ IF cpu_exit_releases(data)
         THEN /\ acpi_io_data' = cpu_exit_clear(acpi_io_data, cpu)
              /\ registered' = [ registered EXCEPT ![cpu] = FALSE ]
              /\ policy' = [ policy EXCEPT ![cpu].freq_table = <<>> ]
              /\ Set(cpu, [ Idle EXCEPT !.pc = "done", !.op = "exit", !.ret = 0,
                                        !.unregs = 1 ])
         ELSE /\ UNCHANGED << acpi_io_data, registered, policy >>
              /\ Set(cpu, [ Idle EXCEPT !.pc = "done", !.op = "exit", !.ret = 0 ])
      /\ synced' = [ synced EXCEPT ![cpu] = FALSE ]
      /\ committed' = [ committed EXCEPT ![cpu] = NoCommit ]
      /\ UNCHANGED << firmware, last_ok >>

\* ------------------------------------------------ the cpufreq core
\* The callback returns to the core, which may then issue the next one.
Return(cpu) ==
  LET r == req[cpu]
  IN  /\ r.pc = "done"
      /\ Set(cpu, Idle)
      /\ last_ok' = [ last_ok EXCEPT
                        ![cpu] = IF r.op = "target" /\ r.retval = 0 /\ r.resume0 = 0
                                 THEN r.index ELSE -1 ]
      /\ UNCHANGED << firmware, acpi_io_data, policy, registered, synced, committed >>

\* The core runs one callback at a time.
OthersIdle(cpu) == \A c \in CPUS \ { cpu } : req[c].pc = "idle"

Next ==
  \/ \E cpu \in CPUS : OthersIdle(cpu) /\ acpi_cpufreq_cpu_init(cpu)
  \/ \E cpu \in CPUS : OthersIdle(cpu) /\ acpi_cpufreq_cpu_exit(cpu)
  \/ \E cpu \in CPUS : OthersIdle(cpu) /\ acpi_cpufreq_target(cpu)
  \/ \E cpu \in CPUS : OthersIdle(cpu) /\ set_check(cpu)
  \/ \E cpu \in CPUS : OthersIdle(cpu) /\ set_compare(cpu)
  \/ \E cpu \in CPUS : OthersIdle(cpu) /\ set_transition(cpu)
  \/ \E cpu \in CPUS : OthersIdle(cpu) /\ set_migrate_end(cpu)
  \/ \E cpu \in CPUS : OthersIdle(cpu) /\ acpi_cpufreq_get(cpu)
  \/ \E cpu \in CPUS : OthersIdle(cpu) /\ get_check(cpu)
  \/ \E cpu \in CPUS : OthersIdle(cpu) /\ get_pstate(cpu)
  \/ \E cpu \in CPUS : OthersIdle(cpu) /\ get_migrate_end(cpu)
  \/ \E cpu \in CPUS : OthersIdle(cpu) /\ Return(cpu)

Spec == Init /\ [][Next]_vars

\* The core runs callbacks of different processors in parallel, and at most one
\* callback per processor.
NextSMP ==
  \/ \E cpu \in CPUS : acpi_cpufreq_cpu_init(cpu)
  \/ \E cpu \in CPUS : acpi_cpufreq_cpu_exit(cpu)
  \/ \E cpu \in CPUS : acpi_cpufreq_target(cpu)
  \/ \E cpu \in CPUS : set_check(cpu)
  \/ \E cpu \in CPUS : set_compare(cpu)
  \/ \E cpu \in CPUS : set_transition(cpu)
  \/ \E cpu \in CPUS : set_migrate_end(cpu)
  \/ \E cpu \in CPUS : acpi_cpufreq_get(cpu)
  \/ \E cpu \in CPUS : get_check(cpu)
  \/ \E cpu \in CPUS : get_pstate(cpu)
  \/ \E cpu \in CPUS : get_migrate_end(cpu)
  \/ \E cpu \in CPUS : Return(cpu)

SpecSMP == InitSMP /\ [][NextSMP]_vars

\* ================================================================ claims
Done(cpu, op) == req[cpu].pc = "done" /\ req[cpu].op = op
States(cpu) == acpi_io_data[cpu].acpi_data.states
Commit(cpu, index) == [ value |-> At(States(cpu), index).control, cpu |-> cpu ]
Kept(cpu) ==
  /\ acpi_io_data[cpu].acpi_data.state = req[cpu].state0
  /\ acpi_io_data[cpu].resume = req[cpu].resume0
\* Both registers of the platform data are in the fixed-hardware address space.
FixedHardware ==
  /\ firmware.control_space = ACPI_ADR_SPACE_FIXED_HARDWARE
  /\ firmware.status_space = ACPI_ADR_SPACE_FIXED_HARDWARE
\* The activation in flight for cpu was handed the platform data.
Delivered(cpu) == req[cpu].count >= 0
Matches(cpu) ==
  { i \in 0 .. (Len(States(cpu)) - 1) : At(States(cpu), i).status = req[cpu].value }

\* C1: after a successful activation, the first target call that passes the
\* affinity check with index equal to the current state commits
\* states[index].control to the hardware (no no-op path) and leaves resume 0.
C1_ResyncAfterInit ==
  \A cpu \in CPUS :
    (Done(cpu, "target") /\ req[cpu].verified /\ req[cpu].first)
      => /\ req[cpu].commits = << Commit(cpu, req[cpu].index) >>
         /\ acpi_io_data[cpu].resume = 0

C1_Witness ==
  \E cpu \in CPUS :
    /\ Done(cpu, "target") /\ req[cpu].verified /\ req[cpu].first
    /\ req[cpu].index = req[cpu].state0 /\ req[cpu].resume0 = 1

\* C2 as stated: a target(i) that immediately follows a successful target(i)
\* entered with resume = 0 returns success, commits nothing, and leaves the
\* current state and resume unchanged.
C2_Original ==
  \A cpu \in CPUS :
    (Done(cpu, "target") /\ req[cpu].prev_ok = req[cpu].index)
      => /\ req[cpu].retval = 0
         /\ req[cpu].commits = << >>
         /\ Kept(cpu)

\* C2 as amended: such a call commits nothing and leaves the current state and
\* resume unchanged; it returns success when it passes the affinity check and
\* -EAGAIN when it does not.
C2_Idempotent ==
  \A cpu \in CPUS :
    (Done(cpu, "target") /\ req[cpu].prev_ok = req[cpu].index)
      => /\ req[cpu].commits = << >>
         /\ Kept(cpu)
         /\ req[cpu].retval = IF req[cpu].landed = cpu THEN 0 ELSE -EAGAIN

C2_Witness ==
  \E cpu \in CPUS :
    /\ Done(cpu, "target") /\ req[cpu].prev_ok = req[cpu].index
    /\ req[cpu].landed = cpu /\ req[cpu].retval = 0

\* C3: a target call whose hardware commit fails returns an error and leaves
\* the current state index as it was before the call.
C3_Rollback ==
  \A cpu \in CPUS :
    (Done(cpu, "target") /\ req[cpu].hw = "failed")
      => /\ req[cpu].retval < 0
         /\ acpi_io_data[cpu].acpi_data.state = req[cpu].state0

C3_Witness ==
  \E cpu \in CPUS :
    /\ Done(cpu, "target") /\ req[cpu].hw = "failed"
    /\ req[cpu].index # req[cpu].state0

\* C4: when a target or get call returns, by whatever path, the caller's
\* allowed-CPU mask is the one it had before the call.
C4_AffinityRestored ==
  \A cpu \in CPUS :
    (Done(cpu, "target") \/ Done(cpu, "get"))
      => req[cpu].cpus_allowed = req[cpu].mask0

C4_Witness ==
  \E cpu \in CPUS :
    /\ Done(cpu, "target") /\ req[cpu].hw = "failed"
    /\ req[cpu].mask0 # { cpu }

\* C5: a call whose caller is not on the requested processor after the pin
\* commits nothing and reads nothing; target then returns an error with the
\* current state and resume unchanged, get returns 0; and every commit or
\* status read is made on the requested processor.
C5_MigrationRace ==
  \A cpu \in CPUS :
    /\ \A i \in 1 .. Len(req[cpu].commits) : req[cpu].commits[i].cpu = cpu
    /\ \A i \in 1 .. Len(req[cpu].reads) : req[cpu].reads[i].cpu = cpu
    /\ (Done(cpu, "target") /\ req[cpu].landed # cpu)
         => /\ req[cpu].commits = << >> /\ req[cpu].reads = << >>
            /\ req[cpu].retval < 0
            /\ Kept(cpu)
    /\ (Done(cpu, "get") /\ req[cpu].landed # cpu)
         => /\ req[cpu].commits = << >> /\ req[cpu].reads = << >>
            /\ req[cpu].ret = 0

C5_Witness ==
  \E cpu \in CPUS :
    /\ Done(cpu, "target") /\ req[cpu].landed # cpu
    /\ req[cpu].index # req[cpu].state0

\* C6: activation that is handed platform data with fewer than two states
\* returns -ENODEV and leaves no registry entry for the processor.
C6_InsufficientStates ==
  \A cpu \in CPUS :
    (Done(cpu, "init") /\ req[cpu].count \in { 0, 1 })
      => /\ req[cpu].ret = -ENODEV
         /\ acpi_io_data[cpu] = NULL

C6_Witness ==
  \E cpu \in CPUS :
    Done(cpu, "init") /\ req[cpu].count = 1 /\ FixedHardware

\* C7 as stated: activation with a control or status register outside the
\* fixed-hardware address space returns an error other than the one for
\* insufficient states, and leaves no registry entry.
C7_Original ==
  \A cpu \in CPUS :
    (Done(cpu, "init") /\ Delivered(cpu) /\ ~FixedHardware)
      => /\ req[cpu].ret < 0
         /\ req[cpu].ret # -ENODEV
         /\ acpi_io_data[cpu] = NULL

\* C7 as amended: such an activation returns -ENODEV, the error also returned
\* for insufficient states, and leaves no registry entry.
C7_UnsupportedSpace ==
  \A cpu \in CPUS :
    (Done(cpu, "init") /\ Delivered(cpu) /\ ~FixedHardware)
      => /\ req[cpu].ret = -ENODEV
         /\ acpi_io_data[cpu] = NULL

C7_Witness ==
  \E cpu \in CPUS :
    /\ Done(cpu, "init") /\ ~FixedHardware /\ req[cpu].count >= 2
    /\ firmware.control_space = ACPI_ADR_SPACE_FIXED_HARDWARE

\* C8: a get whose status read succeeds with a value that is the status of no
\* table entry returns 1000 times the core frequency of the last entry, which
\* is neither an error nor zero.
C8_FallbackLookup ==
  \A cpu \in CPUS :
    (Done(cpu, "get") /\ req[cpu].hw = "ok" /\ Matches(cpu) = {})
      => /\ req[cpu].ret = At(States(cpu), Len(States(cpu)) - 1).core_frequency * 1000
         /\ req[cpu].ret > 0

C8_Witness ==
  \E cpu \in CPUS :
    /\ Done(cpu, "get") /\ req[cpu].hw = "ok" /\ Matches(cpu) = {}
    /\ At(States(cpu), 0).core_frequency
         # At(States(cpu), Len(States(cpu)) - 1).core_frequency

\* C9: a get whose status read succeeds with a value that is the status of
\* some table entry returns 1000 times the core frequency of the matching
\* entry of lowest index.
C9_ExactLookup ==
  \A cpu \in CPUS :
    (Done(cpu, "get") /\ req[cpu].hw = "ok" /\ Matches(cpu) # {})
      => \E i \in Matches(cpu) :
           /\ \A j \in Matches(cpu) : i <= j
           /\ req[cpu].ret = At(States(cpu), i).core_frequency * 1000

C9_Witness ==
  \E cpu \in CPUS :
    /\ Done(cpu, "get") /\ req[cpu].hw = "ok"
    /\ \E i, j \in Matches(cpu) :
         At(States(cpu), i).core_frequency # At(States(cpu), j).core_frequency

\* C10: a get whose status read fails returns 0 and reports no table lookup.
C10_ReadFailure ==
  \A cpu \in CPUS :
    (Done(cpu, "get") /\ req[cpu].hw = "failed")
      => /\ req[cpu].ret = 0
         /\ req[cpu].lookups = 0

C10_Witness ==
  \E cpu \in CPUS :
    Done(cpu, "get") /\ req[cpu].hw = "failed" /\ req[cpu].reads # << >>


\* C11: every registry entry has at least two states and a current state index
\* inside its table, also after failed transitions.
C11_ValidIndex ==
  \A cpu \in CPUS :
    acpi_io_data[cpu] # NULL
      => /\ acpi_io_data[cpu].acpi_data.state_count >= 2
         /\ acpi_io_data[cpu].acpi_data.state_count = Len(States(cpu))
         /\ 0 <= acpi_io_data[cpu].acpi_data.state
         /\ acpi_io_data[cpu].acpi_data.state < acpi_io_data[cpu].acpi_data.state_count

C11_Witness ==
  \E cpu \in CPUS :
    /\ Done(cpu, "target") /\ req[cpu].hw = "failed" /\ req[cpu].index = 0
    /\ acpi_io_data[cpu].acpi_data.state = Len(States(cpu)) - 1

\* C12: deactivation returns 0 and leaves no entry for the processor; for a
\* processor without an entry it changes neither the registry, the policy nor
\* the registration, and unregisters nothing.
C12_ExitSafe ==
  [][ \A cpu \in CPUS :
        (req[cpu].pc = "idle" /\ req'[cpu].op = "exit")
          => /\ req'[cpu].ret = 0
             /\ acpi_io_data'[cpu] = NULL
             /\ acpi_io_data[cpu] = NULL
                  => /\ acpi_io_data' = acpi_io_data
                     /\ policy' = policy
                     /\ registered' = registered
                     /\ req'[cpu].unregs = 0 ]_vars

C12_Witness ==
  \E cpu \in CPUS :
    /\ Done(cpu, "exit") /\ req[cpu].unregs = 0
    /\ policy[cpu].transition_latency # 0

C14_SingleCommit ==
  \A cpu \in CPUS :
    /\ Len(req[cpu].commits) <= 1
    /\ (Done(cpu, "target") /\ req[cpu].landed = cpu
        /\ ~(req[cpu].index = req[cpu].state0 /\ req[cpu].resume0 = 0))
         => req[cpu].commits = << Commit(cpu, req[cpu].index) >>
    /\ (Done(cpu, "target") /\ req[cpu].hw = "ok")
         => /\ req[cpu].retval = 0
            /\ acpi_io_data[cpu].acpi_data.state = req[cpu].index

C14_Witness ==
  \E cpu \in CPUS :
    /\ Done(cpu, "target") /\ req[cpu].hw = "ok"
    /\ req[cpu].index # req[cpu].state0 /\ req[cpu].resume0 = 0

\* C15: under any interleaving of calls for different processors, a step of a
\* call for one processor leaves the registry entry (with its current state
\* index and resume flag), the policy and the registration of every other
\* processor unchanged.
C15_Isolation ==
  [][ \A q \in CPUS :
        req'[q] = req[q]
          => /\ acpi_io_data'[q] = acpi_io_data[q]
             /\ policy'[q] = policy[q]
             /\ registered'[q] = registered[q] ]_vars

C15_Witness ==
  \E p, q \in CPUS :
    /\ p # q
    /\ req[p].pc = "set_transition" /\ acpi_io_data[p] # NULL
    /\ Done(q, "init") /\ req[q].ret # 0 /\ acpi_io_data[q] = NULL

\* The target call of cpu is between its affinity check and the restore.
WriteWindow(cpu) ==
  /\ req[cpu].op = "target"
  /\ req[cpu].pc \in { "set_compare", "set_transition" }

\* C16: every write to a processor's current state index or resume flag is
\* made by a target call of that processor whose caller is pinned to it and
\* running on it, before the saved mask is restored; and no two calls are in
\* the write window on the same processor in the same state, even with calls
\* for different processors interleaved.
C16_SingleWriter ==
  /\ [][ \A cpu \in CPUS :
           ( /\ acpi_io_data[cpu] # NULL
             /\ acpi_io_data'[cpu] # NULL
             /\ \/ acpi_io_data'[cpu].acpi_data.state # acpi_io_data[cpu].acpi_data.state
                \/ acpi_io_data'[cpu].resume # acpi_io_data[cpu].resume )
             => /\ WriteWindow(cpu)
                /\ req[cpu].on_cpu = cpu
                /\ req[cpu].cpus_allowed = { cpu }
                /\ req'[cpu].cpus_allowed = { cpu } ]_vars
  /\ [](\A p \in CPUS :
          Cardinality({ q \in CPUS : WriteWindow(q) /\ req[q].on_cpu = p }) <= 1)

C16_Witness ==
  /\ \A cpu \in CPUS : WriteWindow(cpu) /\ req[cpu].on_cpu = cpu
  /\ \E cpu \in CPUS : req[cpu].pc = "set_transition" /\ req[cpu].first

\* C17: on an active processor the current state index is the index of the
\* most recent target call whose hardware commit succeeded, or the initial
\* index reported by the platform when none has succeeded since activation;
\* failed commits, migration races, no-op calls and get calls leave it alone.
C17_History ==
  \A cpu \in CPUS :
    /\ acpi_io_data[cpu] # NULL
         => acpi_io_data[cpu].acpi_data.state = committed[cpu].index
    /\ (Done(cpu, "target") /\ req[cpu].hw # "ok")
         => acpi_io_data[cpu].acpi_data.state = req[cpu].state0
    /\ Done(cpu, "get")
         => acpi_io_data[cpu].acpi_data.state = req[cpu].state0

C17_Witness ==
  \E cpu \in CPUS :
    /\ Done(cpu, "target") /\ req[cpu].hw = "failed"
    /\ committed[cpu].control # -1
    /\ req[cpu].index # committed[cpu].index

\* C18: between calls, on an active processor whose resume flag is clear, at
\* least one hardware commit has succeeded since activation and the most recent
\* successful commit carried states[state].control.
C18_ResyncNeverSkipped ==
  \A cpu \in CPUS :
    ( /\ req[cpu].pc \in { "idle", "done" }
      /\ acpi_io_data[cpu] # NULL
      /\ acpi_io_data[cpu].resume = 0 )
      => /\ committed[cpu].control # -1
         /\ committed[cpu].control
              = At(States(cpu), acpi_io_data[cpu].acpi_data.state).control

\* C19: the resume flag becomes set only in a successful activation and
\* becomes clear only in a target call that passed the affinity check and asked
\* for the current state; a target call for another state leaves the flag as
\* it was, so a call for the current state made while the flag is still set
\* commits even after an earlier successful transition.
C19_ResumeTransitions ==
  /\ [][ \A cpu \in CPUS :
           /\ ( /\ acpi_io_data'[cpu] # NULL
                /\ acpi_io_data'[cpu].resume # 0
                /\ \/ acpi_io_data[cpu] = NULL
                   \/ acpi_io_data[cpu].resume = 0 )
                => /\ req[cpu].pc = "idle"
                   /\ req'[cpu].op = "init"
                   /\ req'[cpu].ret = 0
           /\ ( /\ acpi_io_data[cpu] # NULL
                /\ acpi_io_data'[cpu] # NULL
                /\ acpi_io_data[cpu].resume # 0
                /\ acpi_io_data'[cpu].resume = 0 )
                => /\ req[cpu].op = "target"
                   /\ req[cpu].landed = cpu
                   /\ req[cpu].index = acpi_io_data[cpu].acpi_data.state ]_vars
  /\ [](\A cpu \in CPUS :
          /\ (Done(cpu, "target") /\ req[cpu].index # req[cpu].state0)
               => acpi_io_data[cpu].resume = req[cpu].resume0
          /\ (Done(cpu, "target") /\ req[cpu].landed = cpu
              /\ req[cpu].index = req[cpu].state0 /\ req[cpu].resume0 # 0)
               => Len(req[cpu].commits) = 1)

C19_Witness ==
  \E cpu \in CPUS :
    /\ Done(cpu, "target") /\ req[cpu].landed = cpu
    /\ req[cpu].index = req[cpu].state0 /\ req[cpu].resume0 # 0
    /\ committed[cpu].control # -1
    /\ Len(req[cpu].commits) = 1

\* The frequency in Hz that the table alone gives for a status value: the first
\* entry with that status, the last entry when there is none.
TableHz(states, value) ==
  LET hits == { i \in 1 .. Len(states) : states[i].status = value }
      i == IF hits = {} THEN Len(states)
           ELSE CHOOSE h \in hits : \A k \in hits : h <= k
  IN  states[i].core_frequency * 1000

\* C20: no step of a get call commits to the hardware or changes the registry,
\* the policy or the registration; and the result of a get call whose status
\* read succeeded is determined by the status value read and the table alone.
C20_GetReadOnly ==
  /\ [][ \A cpu \in CPUS :
           ((req[cpu].op = "get" \/ req'[cpu].op = "get") /\ req'[cpu] # req[cpu])
             => /\ acpi_io_data' = acpi_io_data
                /\ policy' = policy
                /\ registered' = registered
                /\ committed' = committed ]_vars
  /\ [](\A cpu \in CPUS :
          /\ req[cpu].op = "get" => req[cpu].commits = << >>
          /\ (Done(cpu, "get") /\ req[cpu].hw = "ok")
               => req[cpu].ret = TableHz(firmware.states, req[cpu].value))

C20_Witness ==
  \E cpu \in CPUS :
    /\ Done(cpu, "get") /\ req[cpu].hw = "ok"
    /\ req[cpu].ret
         # At(States(cpu), acpi_io_data[cpu].acpi_data.state).core_frequency * 1000

====
